---- MODULE Spec2Model ----
(***************************************************************************)
(* Model of cdev::CDev (src/src/lib/cdev/CDev.cpp): the open/close         *)
(* reference counting with its first-open / last-close hooks, the poll     *)
(* waiter table (_pollset, _max_pollwaiters) and poll_notify.              *)
(*                                                                         *)
(* Tasks call open(), close() and poll(); each of them runs under the      *)
(* semaphore _lock.  poll_notify() runs inside ATOMIC_ENTER/ATOMIC_LEAVE:  *)
(* one indivisible step that can be taken at any point between two steps   *)
(* of a task, also of the task that holds _lock (interrupt context on a    *)
(* single core).                                                           *)
(*                                                                         *)
(* Event masks (pollevent_t) are modelled as sets of event kinds: & is     *)
(* \cap, | is \cup, 0 is {}.  A px4_pollfd_struct_t is a waiter id in      *)
(* 1..NumWaiters; 0 is nullptr.                                            *)
(***************************************************************************)
EXTENDS Integers, Sequences, FiniteSets, TLC

\* ---- bounds of the model -------------------------------------------------
NumTasks == 2
NumWaiters == 2
\* poll setups that may be outstanding (registered) at once
MaxRegs == 2
\* largest value the open count is driven to
MaxOpen == 2
\* open()/close() calls made in one run
MaxCalls == 5
\* largest count a wake semaphore is driven to
MaxSem == 2
\* setups of the modelled waiters outstanding at once under SpecCap
MaxCapRegs == 3
\* waiters registered one after another under SpecSeq
NumSeqWaiters == 5
\* register_driver calls made on one device
MaxRegister == 6

\* ---- program constants ---------------------------------------------------
PX4_OK == 0
PX4_ERROR == -1
EBADF == 9
ENOMEM == 12
EINVAL == 22
\* 256 / 2: _max_pollwaiters is a uint8_t
PollsetLimit == 128
\* width of _max_pollwaiters
Uint8Mod == 256
\* while (class_instance < 4)
MaxClassInstances == 4

Tasks == 1..NumTasks
Waiters == 1..NumWaiters
Events == {"READ", "WRITE"}
Masks == SUBSET Events
\* values a subclass' open_first / close_last may return
HookRets == {PX4_OK, PX4_ERROR, 0 - EBADF}
\* hookVal of a call that invoked no hook (<<r>>: the hook returned r)
NoHook == <<>>
\* the open file description the tasks poll through
Filep == "filep"
\* marks "the last step was no poll_notify"
NoMask == {"none"}

VARIABLES
    \* ---- CDev members
    open_count,        \* _open_count
    lock,              \* holder of _lock (0: semaphore count 1, free)
    pollset,           \* the array _pollset points to (<<>>: nullptr)
    pollset_freed,     \* _pollset points to an array already delete[]d
    max_pollwaiters,   \* _max_pollwaiters (uint8_t)
    \* ---- the driver's device state, what poll_state() reports
    devState,
    \* ---- waiter records (px4_pollfd_struct_t), owned by the consumers
    events,            \* fds->events
    revents,           \* fds->revents
    sem,               \* fds->sem count (negative: consumer blocked on it)
    priv,              \* fds->priv (the filep of the last setup)
    \* ---- per task: position and locals of the call in progress
    pc, op, fds, ret,
    new_pollset,       \* store_poll_waiter's new_pollset (<<>>: none)
    tmp,               \* value of fds->revents | (fds->events & poll_state()) before it is stored
    \* ---- history (not program state)
    pre,               \* open count found by the open()/close() in progress
    hookVal,           \* what the hook invoked by the call in progress returned
    polled,            \* what poll_state() returned to the call in progress
    selfPosted,        \* poll() itself posted the wake signal
    notified,          \* events notified while poll_state reported them
    lastNotify,        \* mask of the poll_notify that was the last step (NoMask: it was not)
    nregs,             \* setups begun and not failed, minus teardowns returned OK
    calls, cross01, cross10, nOpenFirst, nCloseLast, nOpenFail,
    lastOpenFailed,    \* the last open() to return reported a hook failure
    \* ---- CDev members and lifetime: binding to the namespace
    has_devname,       \* _devname != nullptr
    registered,        \* _registered
    destroyed,         \* ~CDev has run
    bound,             \* names register_driver has bound for this device
    \* ---- history of the binding
    nRegister,         \* calls of register_driver
    nUnregister,       \* calls of unregister_driver
    initBound,         \* a bind made through init() succeeded
    classBound,        \* a bind made through register_class_devname() succeeded
    regRet,            \* what the last init()/register_class_devname() returned
    \* ---- history of the waiter table
    callTab,           \* the table at the entry of the poll() in progress
    callCap,           \* _max_pollwaiters at the entry of the poll() in progress
    pairW,             \* waiter of the last setup, nothing but its teardown begun since (0: none)
    pairTab            \* the table at the entry of that setup

cdevVars == <<open_count, lock, pollset, pollset_freed, max_pollwaiters, devState>>
waiterVars == <<events, revents, sem, priv>>
taskVars == <<pc, op, fds, ret, new_pollset, tmp>>
pollHist == <<polled, selfPosted, nregs>>
trackVars == <<notified, lastNotify>>
lifeHist == <<pre, hookVal, calls, cross01, cross10, nOpenFirst, nCloseLast,
              nOpenFail, lastOpenFailed>>
regVars == <<has_devname, registered, destroyed, bound, nRegister, nUnregister,
             initBound, classBound, regRet>>
snapVars == <<callTab, callCap, pairW, pairTab>>
vars == <<cdevVars, waiterVars, taskVars, pollHist, trackVars, lifeHist,
          regVars, snapVars>>

\* ---- helpers ---------------------------------------------------------------
\* slots of the table the members describe
Slots == 1..max_pollwaiters

\* px4_sem_post
SemPost(s, w) == [s EXCEPT ![w] = @ + 1]

\* ---- construction ------------------------------------------------------------
\* CDev::CDev: lock count 1, members at their default initialisers.
InitCDev ==
    /\ open_count = 0
    /\ lock = 0
    /\ pollset = <<>>
    /\ pollset_freed = FALSE
    /\ max_pollwaiters = 0
    /\ devState = {}

\* the interest masks the consumers poll with
InterestOf(w) ==
    CASE w % 3 = 1 -> {"READ"}
      [] w % 3 = 2 -> {"WRITE"}
      [] OTHER -> {"READ", "WRITE"}

\* Waiter records as their consumers prepare them: an interest mask, no
\* ready events, wake semaphore at 0.
InitWaiters ==
    /\ events = [w \in Waiters |-> InterestOf(w)]
    /\ revents = [w \in Waiters |-> {}]
    /\ sem = [w \in Waiters |-> 0]
    /\ priv = [w \in Waiters |-> "unset"]

InitTasks ==
    /\ pc = [t \in Tasks |-> "idle"]
    /\ op = [t \in Tasks |-> "none"]
    /\ fds = [t \in Tasks |-> 0]
    /\ ret = [t \in Tasks |-> PX4_OK]
    /\ new_pollset = <<>>
    /\ tmp = [t \in Tasks |-> {}]

InitHist ==
    /\ pre = [t \in Tasks |-> 0]
    /\ hookVal = [t \in Tasks |-> NoHook]
    /\ polled = [t \in Tasks |-> {}]
    /\ selfPosted = [t \in Tasks |-> FALSE]
    /\ notified = {}
    /\ lastNotify = NoMask
    /\ nregs = 0
    /\ calls = 0
    /\ cross01 = 0
    /\ cross10 = 0
    /\ nOpenFirst = 0
    /\ nCloseLast = 0
    /\ nOpenFail = 0
    /\ lastOpenFailed = FALSE

\* CDev::CDev(devname): the name may be nullptr; _registered is false and no
\* name is bound.
InitReg ==
    /\ has_devname \in BOOLEAN
    /\ registered = FALSE
    /\ destroyed = FALSE
    /\ bound = {}
    /\ nRegister = 0
    /\ nUnregister = 0
    /\ initBound = FALSE
    /\ classBound = FALSE
    /\ regRet = PX4_OK

\* no poll() call has been made
InitSnap ==
    /\ callTab = <<>>
    /\ callCap = 0
    /\ pairW = 0
    /\ pairTab = <<>>

\* a device with a name, not yet bound
InitNamed == InitReg /\ has_devname

Init == InitCDev /\ InitWaiters /\ InitTasks /\ InitHist /\ InitNamed /\ InitSnap

\* faulty variant: a return path that skips unlock()
ReturnNoUnlock(t) ==
    /\ lock' = lock
    /\ pc' = [pc EXCEPT ![t] = "idle"]
    /\ op' = [op EXCEPT ![t] = "none"]
    /\ fds' = [fds EXCEPT ![t] = 0]
    /\ ret' = [ret EXCEPT ![t] = PX4_OK]
    /\ tmp' = [tmp EXCEPT ![t] = {}]
    /\ pre' = [pre EXCEPT ![t] = 0]
    /\ hookVal' = [hookVal EXCEPT ![t] = NoHook]
    /\ polled' = [polled EXCEPT ![t] = {}]
    /\ selfPosted' = [selfPosted EXCEPT ![t] = FALSE]

\* what returning from a call does to the task's locals
Return(t) ==
    /\ lock' = 0
    /\ pc' = [pc EXCEPT ![t] = "idle"]
    /\ op' = [op EXCEPT ![t] = "none"]
    /\ fds' = [fds EXCEPT ![t] = 0]
    /\ ret' = [ret EXCEPT ![t] = PX4_OK]
    /\ tmp' = [tmp EXCEPT ![t] = {}]
    /\ pre' = [pre EXCEPT ![t] = 0]
    /\ hookVal' = [hookVal EXCEPT ![t] = NoHook]
    /\ polled' = [polled EXCEPT ![t] = {}]
    /\ selfPosted' = [selfPosted EXCEPT ![t] = FALSE]

\* ---- open() ------------------------------------------------------------------
\* faulty variant: open_first on every open that leaves the device open
IsFirstOpenAnyOpen(count) == count >= 1

\* the test that makes open() call open_first
IsFirstOpen(count) == count = 1

\* lock(); _open_count++
OpenEnter(t) ==
    /\ pc[t] = "idle" /\ lock = 0
    /\ calls < MaxCalls /\ open_count < MaxOpen
    /\ lock' = t
    /\ open_count' = open_count + 1
    /\ pc' = [pc EXCEPT ![t] = "open_first"]
    /\ op' = [op EXCEPT ![t] = "open"]
    /\ pre' = [pre EXCEPT ![t] = open_count]
    /\ calls' = calls + 1
    /\ cross01' = IF open_count = 0 THEN cross01 + 1 ELSE cross01
    /\ UNCHANGED <<pollset, pollset_freed, max_pollwaiters, devState, waiterVars,
                   fds, ret, new_pollset, tmp, pollHist, hookVal, cross10,
                   nOpenFirst, nCloseLast, nOpenFail, lastOpenFailed>>

\* faulty variant: the increment is kept when open_first declined
OpenRollbackMissing(count) == count

\* the count open() leaves when open_first declined
OpenRollback(count) == count - 1

\* if (_open_count == 1) { ret = open_first(filep); if (ret != PX4_OK) _open_count--; }
OpenFirst(t) ==
    /\ pc[t] = "open_first"
    /\ pc' = [pc EXCEPT ![t] = "open_ret"]
    /\ IF IsFirstOpen(open_count)
       THEN \E r \in HookRets :
              /\ ret' = [ret EXCEPT ![t] = r]
              /\ hookVal' = [hookVal EXCEPT ![t] = <<r>>]
              /\ nOpenFirst' = nOpenFirst + 1
              /\ IF r # PX4_OK
                 THEN /\ open_count' = OpenRollback(open_count)
                      /\ cross10' = IF open_count = 1 /\ open_count' = 0
                                    THEN cross10 + 1 ELSE cross10
                      /\ nOpenFail' = nOpenFail + 1
                 ELSE UNCHANGED <<open_count, cross10, nOpenFail>>
       ELSE UNCHANGED <<ret, hookVal, nOpenFirst, open_count, cross10, nOpenFail>>
    /\ lastOpenFailed' = FALSE
    /\ UNCHANGED <<lock, pollset, pollset_freed, max_pollwaiters, devState,
                   waiterVars, op, fds, new_pollset, tmp, pollHist, pre, calls,
                   cross01, nCloseLast>>

\* unlock(); return ret
OpenReturn(t) ==
    /\ pc[t] = "open_ret"
    /\ Return(t)
    /\ lastOpenFailed' = (hookVal[t] # NoHook /\ hookVal[t][1] # PX4_OK)
    /\ UNCHANGED <<open_count, pollset, pollset_freed, max_pollwaiters, devState,
                   waiterVars, new_pollset, nregs, calls,
                   cross01, cross10, nOpenFirst, nCloseLast, nOpenFail>>

\* ---- close() -----------------------------------------------------------------
\* faulty variant: close() decrements a count of 0 too
IsOpenOffByOne(count) == count >= 0

\* the test that lets close() decrement
IsOpen(count) == count > 0

\* lock(); if (_open_count > 0) _open_count--; else ret = -EBADF
CloseEnter(t) ==
    /\ pc[t] = "idle" /\ lock = 0
    /\ calls < MaxCalls
    /\ lock' = t
    /\ op' = [op EXCEPT ![t] = "close"]
    /\ pre' = [pre EXCEPT ![t] = open_count]
    /\ calls' = calls + 1
    /\ IF IsOpen(open_count)
       THEN /\ open_count' = open_count - 1
            /\ cross10' = IF open_count = 1 THEN cross10 + 1 ELSE cross10
            /\ pc' = [pc EXCEPT ![t] = "close_last"]
            /\ UNCHANGED ret
       ELSE /\ ret' = [ret EXCEPT ![t] = 0 - EBADF]
            /\ pc' = [pc EXCEPT ![t] = "close_ret"]
            /\ UNCHANGED <<open_count, cross10>>
    /\ UNCHANGED <<pollset, pollset_freed, max_pollwaiters, devState, waiterVars,
                   fds, new_pollset, tmp, pollHist, hookVal, cross01, nOpenFirst,
                   nCloseLast, nOpenFail, lastOpenFailed>>

\* the test that makes close() call close_last
IsLastClose(count) == count = 0

\* faulty variant: a failing close_last takes the decrement back
CountAfterCloseLastVeto(count, r) == IF r # PX4_OK THEN count + 1 ELSE count

\* the count close() leaves once close_last has returned r
CountAfterCloseLast(count, r) == count

\* if (_open_count == 0) ret = close_last(filep)
CloseLast(t) ==
    /\ pc[t] = "close_last"
    /\ pc' = [pc EXCEPT ![t] = "close_ret"]
    /\ IF IsLastClose(open_count)
       THEN \E r \in HookRets :
              /\ ret' = [ret EXCEPT ![t] = r]
              /\ hookVal' = [hookVal EXCEPT ![t] = <<r>>]
              /\ nCloseLast' = nCloseLast + 1
              /\ open_count' = CountAfterCloseLast(open_count, r)
       ELSE UNCHANGED <<ret, hookVal, nCloseLast, open_count>>
    /\ UNCHANGED <<lock, pollset, pollset_freed, max_pollwaiters, devState,
                   waiterVars, op, fds, new_pollset, tmp, pollHist, pre,
                   calls, cross01, cross10, nOpenFirst, nOpenFail, lastOpenFailed>>

\* unlock(); return ret
CloseReturn(t) ==
    /\ pc[t] = "close_ret"
    /\ Return(t)
    /\ UNCHANGED <<open_count, pollset, pollset_freed, max_pollwaiters, devState,
                   waiterVars, new_pollset, nregs, calls,
                   cross01, cross10, nOpenFirst, nCloseLast, nOpenFail,
                   lastOpenFailed>>

\* the step is no poll_notify
NoNotify == notified' = notified /\ lastNotify' = NoMask

\* the step is no init(), register_class_devname() or ~CDev
NoReg == UNCHANGED regVars

\* nothing is recorded about the waiter table
NoSnap == UNCHANGED snapVars

\* a step of open(), close() or poll(), of the driver or of a consumer
Untracked == NoNotify /\ NoReg /\ NoSnap

NextLife ==
    \/ \E t \in Tasks : OpenEnter(t) /\ Untracked
    \/ \E t \in Tasks : OpenFirst(t) /\ Untracked
    \/ \E t \in Tasks : OpenReturn(t) /\ Untracked
    \/ \E t \in Tasks : CloseEnter(t) /\ Untracked
    \/ \E t \in Tasks : CloseLast(t) /\ Untracked
    \/ \E t \in Tasks : CloseReturn(t) /\ Untracked

SpecLife == Init /\ [][NextLife]_vars

\* ---- poll(): setup ----------------------------------------------------------
\* lock(); fds->priv = (void *)filep
PollSetupEnter(t, w) ==
    /\ pc[t] = "idle" /\ lock = 0
    /\ sem[w] >= 0
    /\ lock' = t
    /\ pc' = [pc EXCEPT ![t] = "store"]
    /\ op' = [op EXCEPT ![t] = "setup"]
    /\ fds' = [fds EXCEPT ![t] = w]
    /\ priv' = [priv EXCEPT ![w] = Filep]
    /\ nregs' = nregs + 1
    /\ UNCHANGED <<open_count, pollset, pollset_freed, max_pollwaiters, devState,
                   events, revents, sem, ret, new_pollset, tmp, polled,
                   selfPosted, lifeHist>>

\* the first free slot among the first n of tab, 0 if there is none
FirstFree(tab, n) ==
    IF \E i \in 1..n : tab[i] = 0
    THEN CHOOSE i \in 1..n : tab[i] = 0 /\ \A j \in 1..(i - 1) : tab[j] # 0
    ELSE 0

\* faulty variant: the limit is tested with > instead of >=
GrowLimitReachedLate(n) == n > PollsetLimit

\* if (_max_pollwaiters >= 256 / 2) return -ENOMEM
GrowLimitReached(n) == n >= PollsetLimit

\* faulty variant: the table grows by one slot
NewCountPlusOne(n) == (n + 1) % Uint8Mod

\* const uint8_t new_count = _max_pollwaiters > 0 ? _max_pollwaiters * 2 : 1
NewCount(n) == (IF n > 0 THEN n * 2 ELSE 1) % Uint8Mod

\* faulty variant: the old slots are copied to the upper end of the new array
\* and the lower end is zeroed
NewTablesCopiedHigh(tab, n) ==
    IF n > 0
    THEN {[i \in 1..NewCount(n) |->
             IF i > NewCount(n) - n THEN tab[i - (NewCount(n) - n)] ELSE 0]}
    ELSE [1..NewCount(n) -> 0..NumWaiters]

\* The arrays new px4_pollfd_struct_t *[new_count] can become before it replaces
\* _pollset: with an old table, its slots copied in order and the added slots
\* zeroed; without one, neither memset nor memcpy runs and the slot holds
\* whatever the allocator left there.
NewTables(tab, n) ==
    IF n > 0
    THEN {[i \in 1..NewCount(n) |-> IF i <= n THEN tab[i] ELSE 0]}
    ELSE [1..NewCount(n) -> 0..NumWaiters]

\* store_poll_waiter: the scan for a free slot; without one, the limit test and
\* the allocation of the new table (which may fail)
StoreScan(t) ==
    /\ pc[t] = "store"
    /\ LET i == FirstFree(pollset, max_pollwaiters) IN
       IF i # 0
       THEN /\ pollset' = [pollset EXCEPT ![i] = fds[t]]
            /\ pc' = [pc EXCEPT ![t] = "check_load"]
            /\ UNCHANGED <<ret, new_pollset>>
       ELSE IF GrowLimitReached(max_pollwaiters)
       THEN /\ ret' = [ret EXCEPT ![t] = 0 - ENOMEM]
            /\ pc' = [pc EXCEPT ![t] = "poll_ret"]
            /\ UNCHANGED <<pollset, new_pollset>>
       ELSE \/ /\ ret' = [ret EXCEPT ![t] = 0 - ENOMEM]
               /\ pc' = [pc EXCEPT ![t] = "poll_ret"]
               /\ UNCHANGED <<pollset, new_pollset>>
            \/ /\ new_pollset' \in NewTables(pollset, max_pollwaiters)
               /\ pc' = [pc EXCEPT ![t] = IF max_pollwaiters > 0
                                          THEN "grow_delete" ELSE "grow_assign"]
               /\ UNCHANGED <<pollset, ret>>
    /\ UNCHANGED <<open_count, lock, pollset_freed, max_pollwaiters, devState,
                   waiterVars, op, fds, tmp, pollHist, lifeHist>>

\* delete[](_pollset): _pollset still points to the array
GrowDelete(t) ==
    /\ pc[t] = "grow_delete"
    /\ pollset_freed' = TRUE
    /\ pc' = [pc EXCEPT ![t] = "grow_assign"]
    /\ UNCHANGED <<open_count, lock, pollset, max_pollwaiters, devState,
                   waiterVars, op, fds, ret, new_pollset, tmp, pollHist, lifeHist>>

\* _pollset = new_pollset
GrowAssign(t) ==
    /\ pc[t] = "grow_assign"
    /\ pollset' = new_pollset
    /\ pollset_freed' = FALSE
    /\ new_pollset' = <<>>
    /\ pc' = [pc EXCEPT ![t] = "grow_store"]
    /\ UNCHANGED <<open_count, lock, max_pollwaiters, devState, waiterVars, op,
                   fds, ret, tmp, pollHist, lifeHist>>

\* _pollset[_max_pollwaiters] = fds
GrowStore(t) ==
    /\ pc[t] = "grow_store"
    /\ pollset' = [pollset EXCEPT ![max_pollwaiters + 1] = fds[t]]
    /\ pc' = [pc EXCEPT ![t] = "grow_count"]
    /\ UNCHANGED <<open_count, lock, pollset_freed, max_pollwaiters, devState,
                   waiterVars, op, fds, ret, new_pollset, tmp, pollHist, lifeHist>>

\* _max_pollwaiters = new_count; return PX4_OK
GrowCount(t) ==
    /\ pc[t] = "grow_count"
    /\ max_pollwaiters' = Len(pollset)
    /\ pc' = [pc EXCEPT ![t] = "check_load"]
    /\ UNCHANGED <<open_count, lock, pollset, pollset_freed, devState,
                   waiterVars, op, fds, ret, new_pollset, tmp, pollHist, lifeHist>>

\* poll_state(filep): the device's current condition (the base class reports 0)
poll_state == devState

\* faulty variant: the device's current state is not looked at
ImmediateReventsNoState(w) == revents[w]

\* fds->revents | (fds->events & poll_state(filep))
ImmediateRevents(w) == revents[w] \cup (events[w] \cap poll_state)

\* fds->revents |= fds->events & poll_state(filep), first half: poll_state is
\* called and fds->revents loaded
CheckLoad(t) ==
    /\ pc[t] = "check_load"
    /\ tmp' = [tmp EXCEPT ![t] = ImmediateRevents(fds[t])]
    /\ polled' = [polled EXCEPT ![t] = poll_state]
    /\ pc' = [pc EXCEPT ![t] = "check_store"]
    /\ UNCHANGED <<cdevVars, waiterVars, op, fds, ret, new_pollset, selfPosted,
                   nregs, lifeHist>>

\* second half: the value is stored to fds->revents
CheckStore(t) ==
    /\ pc[t] = "check_store"
    /\ revents' = [revents EXCEPT ![fds[t]] = tmp[t]]
    /\ pc' = [pc EXCEPT ![t] = "post"]
    /\ UNCHANGED <<cdevVars, events, sem, priv, op, fds, ret, new_pollset, tmp,
                   pollHist, lifeHist>>

\* if (fds->revents != 0)
PostNow(rev) == rev # {}

\* if (fds->revents != 0) px4_sem_post(fds->sem)
PollPost(t) ==
    /\ pc[t] = "post"
    /\ pc' = [pc EXCEPT ![t] = "poll_ret"]
    /\ IF PostNow(revents[fds[t]])
       THEN /\ sem' = SemPost(sem, fds[t])
            /\ selfPosted' = [selfPosted EXCEPT ![t] = TRUE]
       ELSE UNCHANGED <<sem, selfPosted>>
    /\ UNCHANGED <<cdevVars, events, revents, priv, op, fds, ret, new_pollset,
                   tmp, polled, nregs, lifeHist>>

\* ---- poll(): teardown -------------------------------------------------------
\* lock()
PollTeardownEnter(t, w) ==
    /\ pc[t] = "idle" /\ lock = 0
    /\ sem[w] >= 0
    /\ lock' = t
    /\ pc' = [pc EXCEPT ![t] = "remove"]
    /\ op' = [op EXCEPT ![t] = "teardown"]
    /\ fds' = [fds EXCEPT ![t] = w]
    /\ UNCHANGED <<open_count, pollset, pollset_freed, max_pollwaiters, devState,
                   waiterVars, ret, new_pollset, tmp, pollHist, lifeHist>>

\* faulty variant: the comparison is inverted (fds != _pollset[i])
FirstMismatch(tab, n, w) ==
    IF \E i \in 1..n : tab[i] # w
    THEN CHOOSE i \in 1..n : tab[i] # w /\ \A j \in 1..(i - 1) : tab[j] = w
    ELSE 0

\* faulty variant: the scan stops one slot early (i < _max_pollwaiters - 1)
FirstMatchShort(tab, n, w) ==
    IF \E i \in 1..(n - 1) : tab[i] = w
    THEN CHOOSE i \in 1..(n - 1) : tab[i] = w /\ \A j \in 1..(i - 1) : tab[j] # w
    ELSE 0

\* the first slot among the first n of tab that holds w, 0 if there is none
FirstMatch(tab, n, w) ==
    IF \E i \in 1..n : tab[i] = w
    THEN CHOOSE i \in 1..n : tab[i] = w /\ \A j \in 1..(i - 1) : tab[j] # w
    ELSE 0

\* remove_poll_waiter
RemovePollWaiter(t) ==
    /\ pc[t] = "remove"
    /\ pc' = [pc EXCEPT ![t] = "poll_ret"]
    /\ LET i == FirstMatch(pollset, max_pollwaiters, fds[t]) IN
       IF i # 0
       THEN /\ pollset' = [pollset EXCEPT ![i] = 0]
            /\ UNCHANGED ret
       ELSE /\ ret' = [ret EXCEPT ![t] = 0 - EINVAL]
            /\ UNCHANGED pollset
    /\ UNCHANGED <<open_count, lock, pollset_freed, max_pollwaiters, devState,
                   waiterVars, op, fds, new_pollset, tmp, pollHist, lifeHist>>

\* unlock(); return ret
PollReturn(t) ==
    /\ pc[t] = "poll_ret"
    /\ Return(t)
    /\ nregs' = IF (op[t] = "setup" /\ ret[t] # PX4_OK)
                   \/ (op[t] = "teardown" /\ ret[t] = PX4_OK)
                THEN nregs - 1 ELSE nregs
    /\ UNCHANGED <<open_count, pollset, pollset_freed, max_pollwaiters, devState,
                   waiterVars, new_pollset, calls, cross01,
                   cross10, nOpenFirst, nCloseLast, nOpenFail, lastOpenFailed>>

\* ---- poll_notify() ------------------------------------------------------------
\* faulty variant: the wake test looks at the count alone
ShouldWakeCountOnly(rev, value) == value <= 0

\* if ((fds->revents != 0) && (value <= 0))
ShouldWake(rev, value) == rev # {} /\ value <= 0

\* poll_notify_one on the waiter records st = [rev, sem]
poll_notify_one(st, w, m) ==
    LET value == st.sem[w]
        rev == st.rev[w] \cup (events[w] \cap m)
    IN  [rev |-> [st.rev EXCEPT ![w] = rev],
         sem |-> IF ShouldWake(rev, value) THEN SemPost(st.sem, w) ELSE st.sem]

\* for (unsigned i = 0; i < _max_pollwaiters; i++) if (nullptr != _pollset[i]) ...
RECURSIVE NotifyFrom(_, _, _, _)
NotifyFrom(view, i, st, m) ==
    IF i > Len(view) THEN st
    ELSE NotifyFrom(view, i + 1,
                    IF view[i] # 0 THEN poll_notify_one(st, view[i], m) ELSE st, m)

\* What the loop can read as _pollset[0 .. _max_pollwaiters-1]: the table, or,
\* while _pollset points to a freed array, anything.
TableViews ==
    IF pollset_freed
    THEN [Slots -> 0..NumWaiters]
    ELSE {[i \in Slots |-> pollset[i]]}

\* poll_notify(events): one atomic section
PollNotify(m) ==
    /\ \E view \in TableViews :
         LET st == NotifyFrom(view, 1, [rev |-> revents, sem |-> sem], m) IN
         /\ revents' = st.rev
         /\ sem' = st.sem
    /\ UNCHANGED <<cdevVars, events, priv, taskVars, polled, selfPosted, nregs,
                   lifeHist>>

\* ---- the environment: the driver's state and the consumers --------------------
\* the device condition poll_state reports changes to s
DevSet(s) ==
    /\ s # devState
    /\ devState' = s
    /\ UNCHANGED <<open_count, lock, pollset, pollset_freed, max_pollwaiters,
                   waiterVars, taskVars, polled, selfPosted, nregs, lifeHist>>

\* no poll() call on waiter w is in progress
Quiet(w) == \A t \in Tasks : fds[t] # w

\* the consumer of w waits on its wake signal (a count below 0: it is blocked)
SemWait(w) ==
    /\ Quiet(w)
    /\ sem[w] >= 0
    /\ sem' = [sem EXCEPT ![w] = @ - 1]
    /\ UNCHANGED <<cdevVars, events, revents, priv, taskVars, pollHist, lifeHist>>

\* the consumer of w reads and clears its ready events
ClearRevents(w) ==
    /\ Quiet(w)
    /\ sem[w] >= 0
    /\ revents[w] # {}
    /\ revents' = [revents EXCEPT ![w] = {}]
    /\ UNCHANGED <<cdevVars, events, sem, priv, taskVars, pollHist, lifeHist>>

NextPoll ==
    \/ \E t \in Tasks, w \in Waiters :
         nregs < MaxRegs /\ sem[w] < MaxSem /\ PollSetupEnter(t, w) /\ Untracked
    \/ \E t \in Tasks : StoreScan(t) /\ Untracked
    \/ \E t \in Tasks : GrowDelete(t) /\ Untracked
    \/ \E t \in Tasks : GrowAssign(t) /\ Untracked
    \/ \E t \in Tasks : GrowStore(t) /\ Untracked
    \/ \E t \in Tasks : GrowCount(t) /\ Untracked
    \/ \E t \in Tasks : CheckLoad(t) /\ Untracked
    \/ \E t \in Tasks : CheckStore(t) /\ Untracked
    \/ \E t \in Tasks : PollPost(t) /\ Untracked
    \/ \E t \in Tasks, w \in Waiters : PollTeardownEnter(t, w) /\ Untracked
    \/ \E t \in Tasks : RemovePollWaiter(t) /\ Untracked
    \/ \E t \in Tasks : PollReturn(t) /\ Untracked
    \/ \E m \in Masks :
         PollNotify(m) /\ lastNotify' = m /\ UNCHANGED notified /\ NoReg /\ NoSnap
    \/ \E s \in Masks : DevSet(s) /\ Untracked
    \/ \E w \in Waiters : SemWait(w) /\ Untracked
    \/ \E w \in Waiters : ClearRevents(w) /\ Untracked

SpecPoll == Init /\ [][NextPoll]_vars

Next == NextLife \/ NextPoll

Spec == Init /\ [][Next]_vars

\* ==== open/close properties (under SpecLife) ==================================

\* C4 (as stated): whenever no call is in progress, open_first has been invoked
\* once per 0 -> 1 crossing of the open count and close_last once per 1 -> 0
\* crossing, and by no other open or close.
C4_HookPerCrossing ==
    lock = 0 => (nOpenFirst = cross01 /\ nCloseLast = cross10)

\* C4 (amended): whenever no call is in progress, open_first has been invoked
\* once per 0 -> 1 crossing of the open count, and close_last once per 1 -> 0
\* crossing other than the roll-back of an open whose open_first failed; no
\* other open or close invokes a hook.
C4_HookPerCrossingButRollback ==
    lock = 0 => (nOpenFirst = cross01 /\ nCloseLast = cross10 - nOpenFail)

\* C4 witness: no call in progress, after a declined first open, a last close
\* and a call that invoked no hook.
C4_Witness ==
    /\ lock = 0
    /\ nOpenFail >= 1
    /\ nCloseLast >= 1
    /\ calls > nOpenFirst + nCloseLast

\* the hook invoked by task t's call returned an error
HookFailed(t) == hookVal[t] # NoHook /\ hookVal[t][1] # PX4_OK

\* C5, at the return of open(): if open_first returned an error, the open
\* count is back at its value before the call, which is 0, and open() returns
\* exactly that error.
C5_AtReturn ==
    \A t \in Tasks :
        (pc[t] = "open_ret" /\ HookFailed(t))
            => (open_count = pre[t] /\ pre[t] = 0 /\ ret[t] = hookVal[t][1])

\* C5, the next open(): the open() that follows one which reported a hook
\* failure invokes open_first.
C5_NextOpen ==
    \A t \in Tasks :
        (lastOpenFailed /\ pc[t] = "open_first" /\ pc'[t] = "open_ret")
            => (hookVal'[t] # NoHook /\ nOpenFirst' = nOpenFirst + 1)

\* C5: a failing open_first leaves the open count at its pre-call value 0, its
\* error is what open() returns, and the next open() is a first open again.
C5_FailedFirstOpen == []C5_AtReturn /\ [][C5_NextOpen]_vars

\* C5 witness: an open() about to return its hook's error, after an earlier
\* open() had failed the same way.
C5_Witness ==
    \E t \in Tasks :
        pc[t] = "open_ret" /\ HookFailed(t) /\ nOpenFail >= 2 /\ open_count = 0

\* C6: the open count is never negative; a close() that finds it 0 returns
\* -EBADF, leaves it 0 and invokes no hook.
C6_CloseNotOpen ==
    /\ open_count >= 0
    /\ \A t \in Tasks :
         (pc[t] = "close_ret" /\ pre[t] = 0)
             => (ret[t] = 0 - EBADF /\ open_count = 0 /\ hookVal[t] = NoHook)

\* C6 witness: a close() on a device that is not open, about to return.
C6_Witness ==
    \E t \in Tasks : pc[t] = "close_ret" /\ pre[t] = 0 /\ ret[t] = 0 - EBADF

\* C7: when close() took the open count from 1 to 0 and close_last returned
\* an error, the count is 0 at the return of close() and close() returns the
\* hook's value.
C7_CloseLastNoVeto ==
    \A t \in Tasks :
        (pc[t] = "close_ret" /\ pre[t] = 1 /\ HookFailed(t))
            => (open_count = 0 /\ ret[t] = hookVal[t][1])

\* C7 witness: a last close whose close_last failed, about to return.
C7_Witness ==
    \E t \in Tasks :
        pc[t] = "close_ret" /\ pre[t] = 1 /\ HookFailed(t) /\ open_count = 0

\* ---- one poll setup racing with one poll_notify ------------------------------
\* A single poll(setup = true) on a fresh device; the device makes its
\* condition true (poll_state reports it from then on) and calls
\* poll_notify once for events it reports, at any point of the setup.
NextRace ==
    \/ \E t \in Tasks, w \in Waiters :
         nregs = 0 /\ PollSetupEnter(t, w) /\ Untracked
    \/ \E t \in Tasks : StoreScan(t) /\ Untracked
    \/ \E t \in Tasks : GrowAssign(t) /\ Untracked
    \/ \E t \in Tasks : GrowStore(t) /\ Untracked
    \/ \E t \in Tasks : GrowCount(t) /\ Untracked
    \/ \E t \in Tasks : CheckLoad(t) /\ Untracked
    \/ \E t \in Tasks : CheckStore(t) /\ Untracked
    \/ \E t \in Tasks : PollPost(t) /\ Untracked
    \/ \E t \in Tasks : PollReturn(t) /\ Untracked
    \/ \E s \in Masks : devState \subseteq s /\ DevSet(s) /\ Untracked
    \/ \E m \in Masks \ {{}} :
         /\ notified = {} /\ m \subseteq devState
         /\ PollNotify(m) /\ notified' = m /\ lastNotify' = m /\ NoReg /\ NoSnap

SpecRace == Init /\ [][NextRace]_vars

\* ---- the waiter table up to its limit ------------------------------------------
\* Tables the device can have been brought to by c setups in a row: every slot
\* occupied, the last by waiter 1, the others by records of consumers that
\* stay registered (ids above NumWaiters; nothing dereferences them here).
CapStarts == {0, PollsetLimit \div 2, PollsetLimit}

FullTable(c) == [i \in 1..c |-> IF i < c THEN NumWaiters + i ELSE 1]

\* the device with a full table of c slots, no call in progress
InitCapAt(c) ==
    /\ open_count = 0
    /\ lock = 0
    /\ pollset = FullTable(c)
    /\ pollset_freed = FALSE
    /\ max_pollwaiters = c
    /\ devState = {}
    /\ events = [w \in Waiters |-> InterestOf(w)]
    /\ revents = [w \in Waiters |-> {}]
    /\ sem = [w \in Waiters |-> 0]
    /\ priv = [w \in Waiters |-> IF c > 0 /\ w = 1 THEN Filep ELSE "unset"]
    /\ InitTasks
    /\ pre = [t \in Tasks |-> 0]
    /\ hookVal = [t \in Tasks |-> NoHook]
    /\ polled = [t \in Tasks |-> {}]
    /\ selfPosted = [t \in Tasks |-> FALSE]
    /\ notified = {}
    /\ lastNotify = NoMask
    /\ nregs = c
    /\ calls = 0 /\ cross01 = 0 /\ cross10 = 0
    /\ nOpenFirst = 0 /\ nCloseLast = 0 /\ nOpenFail = 0
    /\ lastOpenFailed = FALSE
    /\ InitNamed /\ InitSnap

InitCap == \E c \in CapStarts : InitCapAt(c)

\* slots held by the modelled waiters
ActiveRegs == Cardinality({i \in 1..Len(pollset) : pollset[i] \in Waiters})

NextCap ==
    \/ \E t \in Tasks, w \in Waiters :
         ActiveRegs < MaxCapRegs /\ PollSetupEnter(t, w) /\ Untracked
    \/ \E t \in Tasks : StoreScan(t) /\ Untracked
    \/ \E t \in Tasks : GrowDelete(t) /\ Untracked
    \/ \E t \in Tasks : GrowAssign(t) /\ Untracked
    \/ \E t \in Tasks : GrowStore(t) /\ Untracked
    \/ \E t \in Tasks : GrowCount(t) /\ Untracked
    \/ \E t \in Tasks : CheckLoad(t) /\ Untracked
    \/ \E t \in Tasks : CheckStore(t) /\ Untracked
    \/ \E t \in Tasks : PollPost(t) /\ Untracked
    \/ \E t \in Tasks, w \in Waiters : PollTeardownEnter(t, w) /\ Untracked
    \/ \E t \in Tasks : RemovePollWaiter(t) /\ Untracked
    \/ \E t \in Tasks : PollReturn(t) /\ Untracked

SpecCap == InitCap /\ [][NextCap]_vars

\* ---- binding to the namespace: init(), register_class_devname(), ~CDev --------
\* the name init() binds, and the name of class instance k
DevName == <<"devname", 0>>
ClassName(k) == <<"class", k>>

\* register_driver (external): binding a name this device has already bound
\* fails; any other bind may succeed or fail
RegisterOutcomes(name) == IF name \in bound THEN {FALSE} ELSE BOOLEAN

\* what is left alone by init(), register_class_devname() and ~CDev
RegFrame ==
    UNCHANGED <<open_count, lock, pollset, max_pollwaiters, devState, waiterVars,
                taskVars, pollHist, trackVars, lifeHist, snapVars, has_devname>>

\* CDev::init
init ==
    /\ ~destroyed
    /\ nRegister < MaxRegister
    /\ IF has_devname
       THEN \E ok \in RegisterOutcomes(DevName) :
              /\ nRegister' = nRegister + 1
              /\ IF ok
                 THEN /\ registered' = TRUE
                      /\ bound' = bound \cup {DevName}
                      /\ initBound' = TRUE
                      /\ regRet' = PX4_OK
                 ELSE /\ regRet' = PX4_ERROR
                      /\ UNCHANGED <<registered, bound, initBound>>
       ELSE /\ regRet' = PX4_ERROR
            /\ UNCHANGED <<registered, bound, initBound, nRegister>>
    /\ UNCHANGED <<destroyed, nUnregister, classBound, pollset_freed>>
    /\ RegFrame

\* CDev::register_class_devname(nullptr)
register_class_devname_null ==
    /\ ~destroyed
    /\ regRet' = 0 - EINVAL
    /\ UNCHANGED <<registered, destroyed, bound, nRegister, nUnregister, initBound,
                   classBound, pollset_freed>>
    /\ RegFrame

\* CDev::register_class_devname(class_devname): register_driver is tried for
\* the instances 0, 1, ... until one bind succeeds; k is the number of binds
\* that failed
register_class_devname ==
    /\ ~destroyed
    /\ nRegister < MaxRegister
    /\ \E k \in 0..MaxClassInstances :
         /\ k < MaxClassInstances => TRUE \in RegisterOutcomes(ClassName(k))
         /\ IF k < MaxClassInstances
            THEN /\ nRegister' = nRegister + k + 1
                 /\ bound' = bound \cup {ClassName(k)}
                 /\ classBound' = TRUE
                 /\ regRet' = k
            ELSE /\ nRegister' = nRegister + MaxClassInstances
                 /\ regRet' = PX4_ERROR
                 /\ UNCHANGED <<bound, classBound>>
    /\ UNCHANGED <<registered, destroyed, nUnregister, initBound, pollset_freed>>
    /\ RegFrame

\* CDev::~CDev, with no call in progress
Destroy ==
    /\ ~destroyed /\ lock = 0
    /\ destroyed' = TRUE
    /\ IF registered
       THEN /\ nUnregister' = nUnregister + 1
            /\ bound' = bound \ {DevName}
       ELSE UNCHANGED <<nUnregister, bound>>
    /\ pollset_freed' = (pollset_freed \/ Len(pollset) > 0)
    /\ UNCHANGED <<registered, nRegister, initBound, classBound, regRet>>
    /\ RegFrame

\* a device from its construction (with or without a name) to its destruction
InitDev == InitCDev /\ InitWaiters /\ InitTasks /\ InitHist /\ InitReg /\ InitSnap

NextDev ==
    \/ init
    \/ register_class_devname_null
    \/ register_class_devname
    \/ Destroy

SpecDev == InitDev /\ [][NextDev]_vars

\* ---- open(), close() and poll() together, under _lock ---------------------------
\* the steps of a call task t has begun, up to and including its return
HolderStep(t) ==
    /\ \/ OpenFirst(t) \/ OpenReturn(t)
       \/ CloseLast(t) \/ CloseReturn(t)
       \/ StoreScan(t) \/ GrowDelete(t) \/ GrowAssign(t) \/ GrowStore(t)
       \/ GrowCount(t) \/ CheckLoad(t) \/ CheckStore(t) \/ PollPost(t)
       \/ RemovePollWaiter(t) \/ PollReturn(t)
    /\ Untracked

NextLock ==
    \/ \E t \in Tasks : OpenEnter(t) /\ Untracked
    \/ \E t \in Tasks : CloseEnter(t) /\ Untracked
    \/ \E t \in Tasks, w \in Waiters :
         /\ nregs < MaxRegs
         /\ \A i \in 1..Len(pollset) : pollset[i] # w
         /\ PollSetupEnter(t, w) /\ Untracked
    \/ \E t \in Tasks, w \in Waiters : PollTeardownEnter(t, w) /\ Untracked
    \/ \E t \in Tasks : HolderStep(t)

\* A task that is inside a call holds the lock and is never blocked (the hooks
\* terminate), so the scheduler lets it take its next step.
SpecLock == Init /\ [][NextLock]_vars /\ \A t \in Tasks : WF_vars(HolderStep(t))

\* ---- distinct waiters registered one after another on an empty table ----------
SeqWaiters == 1..NumSeqWaiters

\* a fresh device and the records of the waiters to register
InitSeq ==
    /\ InitCDev
    /\ events = [w \in SeqWaiters |-> InterestOf(w)]
    /\ revents = [w \in SeqWaiters |-> {}]
    /\ sem = [w \in SeqWaiters |-> 0]
    /\ priv = [w \in SeqWaiters |-> "unset"]
    /\ InitTasks /\ InitHist /\ InitNamed /\ InitSnap

\* poll(setup = true) for waiters that are in no slot; no teardown
NextSeq ==
    \/ \E t \in Tasks, w \in SeqWaiters :
         /\ \A i \in 1..Len(pollset) : pollset[i] # w
         /\ PollSetupEnter(t, w) /\ Untracked
    \/ \E t \in Tasks : StoreScan(t) /\ Untracked
    \/ \E t \in Tasks : GrowDelete(t) /\ Untracked
    \/ \E t \in Tasks : GrowAssign(t) /\ Untracked
    \/ \E t \in Tasks : GrowStore(t) /\ Untracked
    \/ \E t \in Tasks : GrowCount(t) /\ Untracked
    \/ \E t \in Tasks : CheckLoad(t) /\ Untracked
    \/ \E t \in Tasks : CheckStore(t) /\ Untracked
    \/ \E t \in Tasks : PollPost(t) /\ Untracked
    \/ \E t \in Tasks : PollReturn(t) /\ Untracked

SpecSeq == InitSeq /\ [][NextSeq]_vars

\* ---- the waiter table, with the table each poll() call found -------------------
\* entry of poll(setup, fds = w): the table the call finds is recorded; a setup
\* starts a setup/teardown pair, a teardown of another waiter ends it
SnapEnter(w, setup) ==
    /\ callTab' = pollset
    /\ callCap' = max_pollwaiters
    /\ IF setup
       THEN pairW' = w /\ pairTab' = pollset
       ELSE IF pairW = w
       THEN UNCHANGED <<pairW, pairTab>>
       ELSE pairW' = 0 /\ pairTab' = <<>>

\* return of poll(): a setup that returned OK leaves its pair open
SnapReturn(t) ==
    /\ callTab' = <<>>
    /\ callCap' = 0
    /\ IF op[t] = "setup" /\ ret[t] = PX4_OK
       THEN UNCHANGED <<pairW, pairTab>>
       ELSE pairW' = 0 /\ pairTab' = <<>>

\* poll() setups and teardowns on the tables of InitCap
NextTable ==
    \/ \E t \in Tasks, w \in Waiters :
         /\ ActiveRegs < MaxCapRegs
         /\ PollSetupEnter(t, w) /\ NoNotify /\ NoReg /\ SnapEnter(w, TRUE)
    \/ \E t \in Tasks : StoreScan(t) /\ Untracked
    \/ \E t \in Tasks : GrowDelete(t) /\ Untracked
    \/ \E t \in Tasks : GrowAssign(t) /\ Untracked
    \/ \E t \in Tasks : GrowStore(t) /\ Untracked
    \/ \E t \in Tasks : GrowCount(t) /\ Untracked
    \/ \E t \in Tasks : CheckLoad(t) /\ Untracked
    \/ \E t \in Tasks : CheckStore(t) /\ Untracked
    \/ \E t \in Tasks : PollPost(t) /\ Untracked
    \/ \E t \in Tasks, w \in Waiters :
         PollTeardownEnter(t, w) /\ NoNotify /\ NoReg /\ SnapEnter(w, FALSE)
    \/ \E t \in Tasks : RemovePollWaiter(t) /\ Untracked
    \/ \E t \in Tasks : PollReturn(t) /\ NoNotify /\ NoReg /\ SnapReturn(t)

SpecTable == InitCap /\ [][NextTable]_vars

\* poll() setups and teardowns on a table that is at the limit, full at first,
\* while the driver's condition changes (no step of a growth is reachable)
NextLimit ==
    \/ \E t \in Tasks, w \in Waiters :
         /\ ActiveRegs < MaxCapRegs /\ sem[w] < MaxSem
         /\ PollSetupEnter(t, w) /\ NoNotify /\ NoReg /\ SnapEnter(w, TRUE)
    \/ \E t \in Tasks : StoreScan(t) /\ Untracked
    \/ \E t \in Tasks : CheckLoad(t) /\ Untracked
    \/ \E t \in Tasks : CheckStore(t) /\ Untracked
    \/ \E t \in Tasks : PollPost(t) /\ Untracked
    \/ \E t \in Tasks, w \in Waiters :
         PollTeardownEnter(t, w) /\ NoNotify /\ NoReg /\ SnapEnter(w, FALSE)
    \/ \E t \in Tasks : RemovePollWaiter(t) /\ Untracked
    \/ \E t \in Tasks : PollReturn(t) /\ NoNotify /\ NoReg /\ SnapReturn(t)
    \/ \E s \in Masks : DevSet(s) /\ Untracked

SpecLimit == InitCapAt(PollsetLimit) /\ [][NextLimit]_vars

\* ==== poll / poll_notify properties (under SpecPoll) ======================

\* waiter w occupies a slot of the table
Registered(w) == \E i \in Slots : pollset[i] = w

\* number of slots of the table that hold w
SlotsOf(w) == Cardinality({i \in Slots : pollset[i] = w})

\* task t is about to return OK from poll(setup = true), and the value
\* poll_state returned to it intersects the waiter's interest
SetupSawEvent(t) ==
    /\ pc[t] = "poll_ret" /\ op[t] = "setup" /\ ret[t] = PX4_OK
    /\ events[fds[t]] \cap polled[t] # {}

\* C1: when poll(setup = true) returns OK and the waiter's interest intersects
\* what poll_state returned, the ready events contain the intersection and
\* poll itself has posted the wake signal.
C1_ImmediateWake ==
    \A t \in Tasks :
        SetupSawEvent(t)
            => /\ (events[fds[t]] \cap polled[t]) \subseteq revents[fds[t]]
               /\ selfPosted[t]
               /\ sem[fds[t]] >= 1

\* C1 witness: such a setup about to return, the signal posted once.
C1_Witness ==
    \E t \in Tasks :
        /\ SetupSawEvent(t)
        /\ selfPosted[t]
        /\ sem[fds[t]] = 1
        /\ revents[fds[t]] = events[fds[t]] \cap polled[t]

\* C3: in every state (poll_notify can be entered in any of them) _pollset
\* points to a live array and _max_pollwaiters does not exceed its length.
C3_NeverMidResize ==
    /\ ~pollset_freed
    /\ max_pollwaiters <= Len(pollset)

\* the step is a poll_notify(m)
NotifyStep(m) == PollNotify(m) /\ lastNotify' = m

\* what C8 as stated asks of one poll_notify(m)
C8_DisjointStep(m) ==
    \A w \in Waiters :
        (Registered(w) /\ events[w] \cap m = {})
            => (revents'[w] = revents[w] /\ sem'[w] = sem[w])

C8_DisjointStepAmended(m) ==
    \A w \in Waiters :
        (Registered(w) /\ events[w] \cap m = {})
            => /\ revents'[w] = revents[w]
               /\ (revents[w] = {} \/ sem[w] > 0) => sem'[w] = sem[w]

NotifiedRevents(w, m) == revents[w] \cup (events[w] \cap m)

\* the count after k visits, each posting once iff the ready events are
\* non-empty and the count it finds is <= 0
NotifiedSem(w, m, k) ==
    IF NotifiedRevents(w, m) = {} \/ sem[w] > 0 THEN sem[w]
    ELSE IF sem[w] + k > 1 THEN 1 ELSE sem[w] + k

\* what C9 asks of one poll_notify(m)
C9_Step(m) ==
    \A w \in Waiters :
        Registered(w)
            => /\ revents'[w] = NotifiedRevents(w, m)
               /\ sem'[w] = NotifiedSem(w, m, SlotsOf(w))

\* C9: poll_notify(m) visits every occupied slot; each visit ORs
\* (interest AND m) into the waiter's ready events and posts its wake signal
\* once iff the resulting ready events are non-empty and the count is <= 0.
C9_NotifyVisitsAll == [][\A m \in Masks : NotifyStep(m) => C9_Step(m)]_vars

\* The effect of poll_notify(m) while _pollset points to a live array: what is
\* left of C9 outside the window C3 is about.
C9_OnLiveTable ==
    [][\A m \in Masks : (NotifyStep(m) /\ ~pollset_freed) => C9_Step(m)]_vars

\* ==== the race of C2 (checked under SpecRace) ==================================

\* C2: once the setup has returned OK and the poll_notify for events the
\* device reports has completed, a waiter interested in one of them has
\* non-empty ready events and a posted wake signal, wherever the poll_notify
\* ran relative to the setup.
C2_NoMissedWakeup ==
    \A w \in Waiters :
        (/\ Registered(w)
         /\ \A t \in Tasks : pc[t] = "idle"
         /\ notified \cap events[w] # {})
            => (revents[w] # {} /\ sem[w] >= 1)

\* ==== table capacity (checked under SpecCap) ===================================

RECURSIVE IsPow2(_)
IsPow2(n) == n = 1 \/ (n > 1 /\ n % 2 = 0 /\ IsPow2(n \div 2))

\* occupied slots of the table
OccupiedSlots == Cardinality({i \in Slots : pollset[i] # 0})

\* C10, in every state: the capacity is 0 or a power of two, at most the
\* limit 128 and so below 2^8; the occupied slots are no more than the
\* waiters registered (setups begun and not failed, less teardowns that
\* returned OK).
C10_Shape ==
    /\ max_pollwaiters = 0 \/ IsPow2(max_pollwaiters)
    /\ max_pollwaiters <= PollsetLimit
    /\ max_pollwaiters < Uint8Mod
    /\ OccupiedSlots <= nregs

\* C10, over every step: the capacity does not decrease.
C10_Monotone == max_pollwaiters' >= max_pollwaiters

\* C10: the capacity stays in 0, 1, 2, 4, ..., 128, never decreases, and the
\* occupied slots never exceed the registered waiters.
C10_Capacity == []C10_Shape /\ [][C10_Monotone]_vars

\* C10 witness: the table at the limit, grown there from 64 slots (a modelled
\* waiter sits in a slot of the upper half that growth added).
C10_Witness ==
    /\ max_pollwaiters = PollsetLimit
    /\ \E i \in Slots :
         i > PollsetLimit \div 2 /\ i < PollsetLimit /\ pollset[i] \in Waiters

\* ==== a setup on a full table at the limit (under SpecLimit) ===================

\* every one of the first n slots of tab is occupied
TableFull(tab, n) == \A i \in 1..n : tab[i] # 0

\* task t is in a poll(setup = true) that found every slot occupied and the
\* capacity at the limit
SetupAtLimit(t) ==
    /\ pc[t] # "idle" /\ op[t] = "setup"
    /\ callCap = PollsetLimit /\ TableFull(callTab, callCap)

\* C11: a poll(setup = true) that finds every slot occupied and the capacity at
\* the fixed maximum never changes the capacity or a slot, and ends with
\* -ENOMEM, the waiter in no slot it was not in and its wake signal not posted.
C11_ExhaustedSetup ==
    \A t \in Tasks :
        SetupAtLimit(t)
            => /\ pc[t] \in {"store", "poll_ret"}
               /\ max_pollwaiters = callCap /\ pollset = callTab
               /\ ~pollset_freed
               /\ ~selfPosted[t]
               /\ pc[t] = "poll_ret" => ret[t] = 0 - ENOMEM

\* C11 witness: such a setup about to return -ENOMEM for a waiter that is in no
\* slot, while the device reports an event the waiter is interested in.
C11_Witness ==
    \E t \in Tasks :
        /\ SetupAtLimit(t) /\ pc[t] = "poll_ret" /\ ret[t] = 0 - ENOMEM
        /\ ~Registered(fds[t])
        /\ events[fds[t]] \cap devState # {}

\* ==== growth by successive adds (under SpecSeq) ================================

\* the capacities 1, 2, 4, 8, 8 of the scenario as stated, by number of adds
C12_ClaimedCap(k) ==
    CASE k = 0 -> 0
      [] k = 1 -> 1
      [] k = 2 -> 2
      [] k = 3 -> 4
      [] OTHER -> 8

\* C12 (as stated): between calls, with k distinct waiters registered on a
\* table that started empty, the capacity is 1, 2, 4 for k = 1, 2, 3 and 8 from
\* the fourth add onwards.
C12_ClaimedSequence ==
    lock = 0 => max_pollwaiters = C12_ClaimedCap(OccupiedSlots)

RECURSIVE Pow2AtLeast(_, _)
Pow2AtLeast(k, p) == IF p >= k THEN p ELSE Pow2AtLeast(k, 2 * p)

\* the smallest capacity of the progression 0, 1, 2, 4, ... that holds k waiters
CapFor(k) == IF k = 0 THEN 0 ELSE Pow2AtLeast(k, 1)

\* C12 (amended): between calls, with k distinct waiters registered on a table
\* that started empty, the capacity is 1, 2, 4, 4, 8 for k = 1, ..., 5: the
\* table doubles only when an add finds no free slot.
C12_DoublesWhenFull ==
    lock = 0 => max_pollwaiters = CapFor(OccupiedSlots)

\* C12 witness: all the waiters registered, after a fourth add that found a
\* free slot (the setup in the fourth slot did not grow the table).
C12_Witness ==
    /\ lock = 0
    /\ OccupiedSlots = NumSeqWaiters
    /\ max_pollwaiters > 4

\* ==== slots keep their waiter (under SpecTable) ================================

\* the step is the slot-clearing of a teardown of waiter w
RemoveStepOf(w) ==
    \E t \in Tasks : pc[t] = "remove" /\ fds[t] = w /\ pc'[t] = "poll_ret"

\* what C13 asks of one step
C13_Step ==
    \A i \in Slots :
        pollset[i] # 0
            => \/ /\ i <= Len(pollset') /\ i <= max_pollwaiters'
                  /\ pollset'[i] = pollset[i]
               \/ RemoveStepOf(pollset[i])

\* C13: a waiter reference in a slot stays in that slot over every step of
\* the program (growth, add or remove of another waiter) other than the
\* slot-clearing of its own teardown.
C13_SlotsStable == [][C13_Step]_vars

\* C13 witness: waiter 1 still in the slot it had in the table of 64 slots,
\* after the table has grown to 128 and another waiter was added twice and
\* removed once behind it.
C13_Witness ==
    /\ lock = 0
    /\ max_pollwaiters = PollsetLimit
    /\ pollset[PollsetLimit \div 2] = 1
    /\ pollset[(PollsetLimit \div 2) + 1] = 0
    /\ pollset[(PollsetLimit \div 2) + 2] \in Waiters \ {1}

\* ==== setup then teardown (under SpecTable) ====================================

\* task t is about to return from the teardown of a waiter that was in no slot
\* when its setup began, the setup returned OK and no other poll() call began
\* between the two
PairTeardown(t) ==
    /\ pc[t] = "poll_ret" /\ op[t] = "teardown"
    /\ pairW # 0 /\ pairW = fds[t]
    /\ \A i \in 1..Len(pairTab) : pairTab[i] # pairW

\* C14: a setup of a waiter that is in no slot, followed immediately by its
\* teardown, leaves every slot the table had as it was before the setup; the
\* capacity may have grown, and all added slots are empty.
C14_SetupTeardownRestores ==
    \A t \in Tasks :
        PairTeardown(t)
            => /\ ret[t] = PX4_OK
               /\ max_pollwaiters = Len(pollset)
               /\ Len(pollset) >= Len(pairTab)
               /\ \A i \in 1..Len(pollset) :
                    pollset[i] = IF i <= Len(pairTab) THEN pairTab[i] ELSE 0

\* C14 witness: such a teardown about to return, the pair having grown a table
\* with occupied slots.
C14_Witness ==
    \E t \in Tasks :
        /\ PairTeardown(t)
        /\ Len(pollset) > Len(pairTab)
        /\ \E i \in 1..Len(pairTab) : pairTab[i] # 0

\* ==== teardown of a waiter that is in no slot (under SpecTable) ================

\* task t is about to return from the teardown of a waiter that was in no slot
\* when the call began
AbsentTeardown(t) ==
    /\ pc[t] = "poll_ret" /\ op[t] = "teardown"
    /\ \A i \in 1..callCap : callTab[i] # fds[t]

\* C15, at the return: the call returns -EINVAL with the capacity and every
\* slot as it found them.
C15_AtReturn ==
    \A t \in Tasks :
        AbsentTeardown(t)
            => /\ ret[t] = 0 - EINVAL
               /\ max_pollwaiters = callCap
               /\ pollset = callTab

\* C15, the return: returning from poll() releases the lock.
C15_Unlocks ==
    \A t \in Tasks : (pc[t] = "poll_ret" /\ pc'[t] = "idle") => lock' = 0

\* C15: poll(setup = false) on a waiter that is in no slot returns -EINVAL,
\* leaves the capacity and every slot unchanged, and releases the lock.
C15_TeardownAbsent == []C15_AtReturn /\ [][C15_Unlocks]_vars

\* C15 witness: such a teardown about to return -EINVAL on a table with an
\* occupied slot.
C15_Witness ==
    \E t \in Tasks :
        /\ AbsentTeardown(t) /\ ret[t] = 0 - EINVAL /\ lock = t
        /\ \E i \in Slots : pollset[i] \in Waiters

\* ==== binding to the namespace (under SpecDev) ==================================

\* what C16 asks of one init(): the flag is set exactly when the bind
\* succeeds, and with the flag set register_driver is not called
C16_Step ==
    /\ registered' = (registered \/ regRet' = PX4_OK)
    /\ registered => nRegister' = nRegister

\* C16: every init() sets the registration flag exactly when its bind
\* succeeds and does not call register_driver once the flag is set.
C16_NoRebind == [][init => C16_Step]_vars

\* C17: once the destructor has run, unregister_driver has been called once if
\* a bind made through init() or register_class_devname() had succeeded, and
\* not at all otherwise.
C17_ReleasedOnce ==
    destroyed => nUnregister = (IF initBound \/ classBound THEN 1 ELSE 0)

\* ==== double post (under SpecRace) ==============================================

\* C18: with one poll(setup = true) and one poll_notify in any interleaving,
\* on waiters whose wake signal starts at 0 and is not waited on, the count of
\* the wake signal never exceeds 1.
C18_NoDoublePost == \A w \in Waiters : sem[w] <= 1

\* ==== a torn-down waiter is out of the table (under SpecPoll) ==================

\* C19: when poll(setup = false) is about to return OK for a waiter, no slot
\* of the table holds that waiter (so that no later poll_notify visits it).
C19_TornDownUnreferenced ==
    \A t \in Tasks :
        (pc[t] = "poll_ret" /\ op[t] = "teardown" /\ ret[t] = PX4_OK)
            => ~Registered(fds[t])

\* ==== the lock (under SpecLock) =================================================

\* C20, in every state: a task inside open(), close() or poll() is the holder
\* of the lock, so at most one task is inside such a call.
C20_Mutex ==
    /\ \A t \in Tasks : pc[t] # "idle" => lock = t
    /\ lock # 0 => pc[lock] # "idle"

\* C20, over every step: the open count and the table are modified only by a
\* step of the task that holds the lock, and a call that returns leaves the
\* lock free.
C20_Step ==
    /\ (\/ open_count' # open_count \/ pollset' # pollset
        \/ max_pollwaiters' # max_pollwaiters \/ pollset_freed' # pollset_freed)
          => /\ lock' # 0 /\ lock \in {0, lock'}
             /\ pc'[lock'] # pc[lock']
    /\ \A t \in Tasks : (pc[t] # "idle" /\ pc'[t] = "idle") => lock' = 0

\* C20, over every behaviour: every call that has begun returns.
C20_Returns == \A t \in Tasks : (pc[t] # "idle") ~> (pc[t] = "idle")

\* C20: the lock has one holder at a time, the open count and the table are
\* modified only by the holder, every return releases the lock, and every
\* call returns.
C20_LockDiscipline == []C20_Mutex /\ [][C20_Step]_vars /\ C20_Returns

\* C20 witness: a teardown about to return -EINVAL while it holds the lock,
\* on a device that is open, after an open() that failed in its hook has
\* returned.
C20_Witness ==
    \E t \in Tasks :
        /\ pc[t] = "poll_ret" /\ ret[t] = 0 - EINVAL /\ lock = t
        /\ nOpenFail >= 1 /\ open_count >= 1

====
